---- MODULE Spec2Model ----
(***************************************************************************)
(* A model of cicada's src/tools.rs: the line classifiers (is_env,         *)
(* is_export_env, is_arithmetic), the history expander (extend_bandband)   *)
(* and the re-quoting function (wrap_sep_string).                          *)
(*                                                                         *)
(* A Rust String is modelled as a sequence of one-character strings, so    *)
(* "echo" is <<"e","c","h","o">> and the empty String is <<>>.             *)
(***************************************************************************)
EXTENDS Integers, Sequences, FiniteSets, TLC

VARIABLES
    \* extend_bandband(sh, line)
    previous_cmd,   \* sh.previous_cmd
    input,          \* the content of `line` when extend_bandband was called
    line,           \* the &mut String `line`
    tokens,         \* the Vec<(String, String)> of cmd_to_tokens(line)
    idx,            \* position of the `for (sep, token) in tokens` loop
    new_line,       \* the local `new_line`
    replaced,       \* the local `replaced`
    stdout,         \* the lines println! has written
    pc,             \* position inside extend_bandband
    \* wrap_sep_string(sep, s)
    w_sep,          \* the argument `sep`
    w_s,            \* the argument `s`
    w_i,            \* position of the `for c in s.chars()` loop
    w_token,        \* the local `_token`
    met_subsep,     \* the local `met_subsep`
    previous_subsep,\* the local `previous_subsep`
    w_result,       \* the returned String
    wpc,            \* position inside wrap_sep_string
    \* the classifiers
    c_line,         \* the line handed to the classifiers
    r_env,          \* <<is_env(c_line)>> once called, <<>> before
    r_export,       \* <<is_export_env(c_line)>> once called, <<>> before
    r_arith         \* <<is_arithmetic(c_line)>> once called, <<>> before

bang_vars == <<previous_cmd, input, line, tokens, idx, new_line, replaced, stdout, pc>>
wrap_vars == <<w_sep, w_s, w_i, w_token, met_subsep, previous_subsep, w_result, wpc>>
class_vars == <<c_line, r_env, r_export, r_arith>>
vars == <<bang_vars, wrap_vars, class_vars>>

(***************************************************************************)
(* Bounds of the model.                                                    *)
(***************************************************************************)
\* most atoms (see BangAtoms) in a line handed to extend_bandband
MaxAtoms == 4
\* most atoms (see PrevAtoms) in sh.previous_cmd
MaxPrevLen == 2
\* most characters in the text handed to wrap_sep_string
MaxTextLen == 4
\* most atoms (see ClassAtoms) in a line handed to the classifiers
MaxClassAtoms == 4

(***************************************************************************)
(* Characters.                                                             *)
(***************************************************************************)
Digits == {"0", "1", "2", "3", "4", "5", "6", "7", "8", "9"}

Lower ==
    {"a", "b", "c", "d", "e", "f", "g", "h", "i", "j", "k", "l", "m",
     "n", "o", "p", "q", "r", "s", "t", "u", "v", "w", "x", "y", "z"}

Upper ==
    {"A", "B", "C", "D", "E", "F", "G", "H", "I", "J", "K", "L", "M",
     "N", "O", "P", "Q", "R", "S", "T", "U", "V", "W", "X", "Y", "Z"}

\* the character U+0060 (a TLA+ string cannot hold it)
Backtick == "BACKTICK"

\* the characters with the Unicode White_Space property, which str::trim_right
\* removes; one a TLA+ string cannot hold is written as its code point
WhiteSpace ==
    {"\t", "\n", "U+000B", "\f", "\r", " ", "U+0085", "U+00A0", "U+1680",
     "U+2000", "U+2001", "U+2002", "U+2003", "U+2004", "U+2005", "U+2006",
     "U+2007", "U+2008", "U+2009", "U+200A", "U+2028", "U+2029", "U+202F",
     "U+205F", "U+3000"}

RECURSIVE Concat(_)
\* the concatenation of a sequence of Strings
Concat(ss) ==
    IF ss = <<>> THEN <<>> ELSE Head(ss) \o Concat(Tail(ss))

RECURSIVE AtomStrings(_, _)
\* every String made of at most n atoms
AtomStrings(atoms, n) ==
    IF n = 0 THEN {<<>>}
    ELSE LET shorter == AtomStrings(atoms, n - 1)
         IN  shorter \cup {l \o a : l \in shorter, a \in atoms}

(***************************************************************************)
(* The regex crate, as far as tools.rs uses it.  A compiled Regex is a     *)
(* record: whether it starts with ^, whether it ends with $, and the       *)
(* sequence of its items, each a character class (a set, or the complement *)
(* of a set) with a quantifier "one", "star" or "plus".                    *)
(***************************************************************************)
Lit(c) == [neg |-> FALSE, set |-> {c}, q |-> "one"]

Class(S, q) == [neg |-> FALSE, set |-> S, q |-> q]

\* `.` matches any character except \n
Dot(q) == [neg |-> TRUE, set |-> {"\n"}, q |-> q]

NameClass == Lower \cup Upper \cup Digits \cup {"_"}

ArithClass == {" ", ".", "(", ")", "+", "-", "*", "/"} \cup Digits

\* Regex::new(ptn) for the patterns of tools.rs; all of them compile
Regex_new(ptn) ==
    CASE ptn = "!!" ->
            [start |-> FALSE, end |-> FALSE, items |-> <<Lit("!"), Lit("!")>>]
      [] ptn = "^ *export +[a-zA-Z0-9_]+=.*$" ->
            [start |-> TRUE, end |-> TRUE,
             items |-> <<Class({" "}, "star"),
                         Lit("e"), Lit("x"), Lit("p"), Lit("o"), Lit("r"), Lit("t"),
                         Class({" "}, "plus"), Class(NameClass, "plus"),
                         Lit("="), Dot("star")>>]
      [] ptn = "^[a-zA-Z0-9_]+=.*$" ->
            [start |-> TRUE, end |-> TRUE,
             items |-> <<Class(NameClass, "plus"), Lit("="), Dot("star")>>]
      [] ptn = "[0-9]+" ->
            [start |-> FALSE, end |-> FALSE, items |-> <<Class(Digits, "plus")>>]
      [] ptn = "^[ 0-9\\.\\(\\)\\+\\-\\*/]+$" ->
            [start |-> TRUE, end |-> TRUE, items |-> <<Class(ArithClass, "plus")>>]

InClass(c, item) == IF item.neg THEN c \notin item.set ELSE c \in item.set

RECURSIVE MatchFrom(_, _, _, _)
\* whether items k.. of re match s from position i on (to the end when re ends with $)
MatchFrom(re, k, s, i) ==
    IF k > Len(re.items) THEN (re.end => i = Len(s) + 1)
    ELSE LET item == re.items[k]
             here == i <= Len(s) /\ InClass(s[i], item)
         IN  CASE item.q = "one"  -> here /\ MatchFrom(re, k + 1, s, i + 1)
               [] item.q = "star" -> \/ (here /\ MatchFrom(re, k, s, i + 1))
                                     \/ MatchFrom(re, k + 1, s, i)
               [] item.q = "plus" -> here /\ (\/ MatchFrom(re, k, s, i + 1)
                                              \/ MatchFrom(re, k + 1, s, i + 1))

\* Regex::is_match: a match anywhere in s, at position 1 when re starts with ^
is_match(re, s) ==
    IF re.start THEN MatchFrom(re, 1, s, 1)
    ELSE \E i \in 1..(Len(s) + 1) : MatchFrom(re, 1, s, i)

re_contains(l, ptn) == is_match(Regex_new(ptn), l)

(***************************************************************************)
(* Replacement strings of the regex crate: Regex::replace_all with a &str  *)
(* replacement expands $name, ${name} and $$ in it (Captures::expand).     *)
(* A name without braces is the longest run of [0-9A-Za-z_]; between       *)
(* braces any text up to the closing brace is the name.  The pattern !!    *)
(* has no capture group but group 0, the whole match.                      *)
(***************************************************************************)
RECURSIVE CapEnd(_, _)
\* the first position from i on that holds no capture-name letter
CapEnd(rep, i) ==
    IF i <= Len(rep) /\ rep[i] \in NameClass THEN CapEnd(rep, i + 1) ELSE i

RECURSIVE BraceEnd(_, _)
\* the first position from i on that holds a closing brace, Len(rep) + 1 when none
BraceEnd(rep, i) ==
    IF i <= Len(rep) /\ rep[i] # "}" THEN BraceEnd(rep, i + 1) ELSE i

\* find_cap_ref_braced, i being the position after the opening brace
find_cap_ref_braced(rep, i) ==
    LET close == BraceEnd(rep, i)
    IN  IF close > Len(rep) THEN [found |-> FALSE]
        ELSE [found |-> TRUE, cap |-> SubSeq(rep, i, close - 1), end |-> close + 1]

\* find_cap_ref at the `$` in position i: the reference's name and the position after it
find_cap_ref(rep, i) ==
    IF i >= Len(rep) THEN [found |-> FALSE]
    ELSE IF rep[i + 1] = "{" THEN find_cap_ref_braced(rep, i + 2)
    ELSE LET capEnd == CapEnd(rep, i + 1)
         IN  IF capEnd = i + 1 THEN [found |-> FALSE]
             ELSE [found |-> TRUE, cap |-> SubSeq(rep, i + 1, capEnd - 1), end |-> capEnd]

\* the text of capture `cap` of a match m of !!: a name that parses as the number 0
\* (digits, after an optional +) is group 0, which is m; no other group exists
CapText(cap, m) ==
    LET digits == IF cap # <<>> /\ cap[1] = "+" THEN Tail(cap) ELSE cap
    IN  IF digits # <<>> /\ (\A k \in 1..Len(digits) : digits[k] = "0") THEN m ELSE <<>>

RECURSIVE expand_str(_, _, _)
\* Captures::expand of rep from position i on, for a match m
expand_str(rep, i, m) ==
    IF i > Len(rep) THEN <<>>
    ELSE IF rep[i] # "$" THEN <<rep[i]>> \o expand_str(rep, i + 1, m)
    ELSE IF i < Len(rep) /\ rep[i + 1] = "$" THEN <<"$">> \o expand_str(rep, i + 2, m)
    ELSE LET ref == find_cap_ref(rep, i)
         IN  IF ref.found THEN CapText(ref.cap, m) \o expand_str(rep, ref.end, m)
             ELSE <<"$">> \o expand_str(rep, i + 1, m)

RECURSIVE ReplaceFrom(_, _, _, _)
\* text from position i on, each leftmost non-overlapping match of re replaced
ReplaceFrom(re, text, i, rep) ==
    IF i > Len(text) THEN <<>>
    ELSE LET n == Len(re.items)
         IN  IF i + n - 1 <= Len(text) /\ is_match(re, SubSeq(text, i, i + n - 1))
             THEN expand_str(rep, 1, SubSeq(text, i, i + n - 1))
                      \o ReplaceFrom(re, text, i + n, rep)
             ELSE <<text[i]>> \o ReplaceFrom(re, text, i + 1, rep)

\* Regex::replace_all(text, rep) for a regex of literals, as !! is
replace_all(re, text, rep) == ReplaceFrom(re, text, 1, rep)

RECURSIVE trim_right(_)
\* str::trim_right: s without its trailing whitespace
trim_right(s) ==
    IF s # <<>> /\ s[Len(s)] \in WhiteSpace THEN trim_right(SubSeq(s, 1, Len(s) - 1))
    ELSE s

(***************************************************************************)
(* parsers::parser_line::cmd_to_tokens, which is not part of tools.rs.     *)
(* Modelled from the specification: tokens are (separator, text) pairs in  *)
(* line order; a token that opens with ' or " runs to the next such quote  *)
(* (or the end of the line) and has that quote as separator; any other     *)
(* token runs to the next space or quote and has the empty separator.      *)
(***************************************************************************)
RECURSIVE IndexFrom(_, _, _)
\* the first position from i on whose character is in S, Len(s) + 1 when none
IndexFrom(s, S, i) ==
    IF i > Len(s) \/ s[i] \in S THEN i ELSE IndexFrom(s, S, i + 1)

RECURSIVE TokensFrom(_, _)
TokensFrom(s, i) ==
    IF i > Len(s) THEN <<>>
    ELSE IF s[i] = " " THEN TokensFrom(s, i + 1)
    ELSE IF s[i] \in {"'", "\""}
         THEN LET j == IndexFrom(s, {s[i]}, i + 1)
              IN  <<  <<  <<s[i]>>, SubSeq(s, i + 1, j - 1)  >>  >> \o TokensFrom(s, j + 1)
    ELSE LET j == IndexFrom(s, {" ", "'", "\""}, i)
         IN  <<  <<  <<>>, SubSeq(s, i, j - 1)  >>  >> \o TokensFrom(s, j)

cmd_to_tokens(l) == TokensFrom(l, 1)

(***************************************************************************)
(* extend_bandband                                                         *)
(***************************************************************************)
\* a faulty variant: the check of previous_cmd (lines 141-143) left out
BangShortCircuit_NoPrevCheck(l, prev) ==
    ~re_contains(l, "!!")

\* the two early returns: no !! in the line, or no previous command
BangShortCircuit(l, prev) ==
    ~re_contains(l, "!!") \/ prev = <<>>

\* a faulty variant: the separator is not looked at
BangShouldReplace_AnySep(sep, token) ==
    re_contains(token, "!!")

\* the condition under which a token is substituted
BangShouldReplace(sep, token) ==
    re_contains(token, "!!") /\ sep # <<"'">>

\* what the loop pushes for the token's text
BangTokenText(sep, token, prev) ==
    IF BangShouldReplace(sep, token)
    THEN replace_all(Regex_new("!!"), token, prev)
    ELSE token

\* what one pass of the loop appends to new_line
BangPushed(sep, token, prev) ==
    (IF sep # <<>> THEN sep ELSE <<>>)
        \o BangTokenText(sep, token, prev)
        \o (IF sep # <<>> THEN sep ELSE <<>>)
        \o <<" ">>

\* a faulty variant: trim_right left out
BangFinalLine_NoTrim(nl) == nl

\* the line the caller is left with
BangFinalLine(nl) == trim_right(nl)

\* a faulty variant: the line is printed whether or not a token was substituted
BangEcho_Always(out, rep, l) == Append(out, l)

\* what println! leaves on stdout once the line is rewritten
BangEcho(out, rep, l) ==
    IF rep THEN Append(out, l) ELSE out

RECURSIVE BangLoop(_, _, _, _)
\* the loop from token i on: [new_line, replaced]
BangLoop(toks, i, acc, prev) ==
    IF i > Len(toks) THEN acc
    ELSE BangLoop(toks, i + 1,
                  [new_line |-> acc.new_line \o BangPushed(toks[i][1], toks[i][2], prev),
                   replaced |-> acc.replaced \/ BangShouldReplace(toks[i][1], toks[i][2])],
                  prev)

\* the whole call: the line it leaves and what it prints
extend_bandband(prev, l) ==
    IF BangShortCircuit(l, prev) THEN [line |-> l, stdout |-> <<>>]
    ELSE LET acc == BangLoop(cmd_to_tokens(l), 1,
                             [new_line |-> <<>>, replaced |-> FALSE], prev)
             fin == BangFinalLine(acc.new_line)
         IN  [line |-> fin, stdout |-> BangEcho(<<>>, acc.replaced, fin)]

\* the pieces lines are made of: !!, '!!', a double quote, a space, a letter
BangAtoms == {<<"!", "!">>, <<"'", "!", "!", "'">>, <<"\"">>, <<" ">>, <<"e">>}

BangLines == AtomStrings(BangAtoms, MaxAtoms)

\* the pieces previous commands are made of
PrevAtoms == {<<"f">>, <<"$">>, <<"!", "!">>, <<" ">>}

PrevCmds == AtomStrings(PrevAtoms, MaxPrevLen)

IdleWrap ==
    /\ w_sep = <<>> /\ w_s = <<>> /\ w_i = 1 /\ w_token = <<>>
    /\ met_subsep = FALSE /\ previous_subsep = "N" /\ w_result = <<>> /\ wpc = "idle"

IdleClass ==
    c_line = <<>> /\ r_env = <<>> /\ r_export = <<>> /\ r_arith = <<>>

IdleBang ==
    /\ previous_cmd = <<>> /\ input = <<>> /\ line = <<>> /\ tokens = <<>> /\ idx = 1
    /\ new_line = <<>> /\ replaced = FALSE /\ stdout = <<>> /\ pc = "idle"

\* a shell with some previous command is about to expand some line
InitBang ==
    /\ previous_cmd \in PrevCmds
    /\ input \in BangLines
    /\ line = input
    /\ tokens = <<>> /\ idx = 1 /\ new_line = <<>> /\ replaced = FALSE
    /\ stdout = <<>>
    /\ pc = "start"
    /\ IdleWrap /\ IdleClass

\* lines 138-143: return, the line untouched
BangReturn ==
    /\ pc = "start"
    /\ BangShortCircuit(line, previous_cmd)
    /\ pc' = "done"
    /\ UNCHANGED <<previous_cmd, input, line, tokens, idx, new_line, replaced, stdout>>
    /\ UNCHANGED <<wrap_vars, class_vars>>

\* lines 156-158: tokenize
BangTokenize ==
    /\ pc = "start"
    /\ ~BangShortCircuit(line, previous_cmd)
    /\ replaced' = FALSE
    /\ new_line' = <<>>
    /\ tokens' = cmd_to_tokens(line)
    /\ idx' = 1
    /\ pc' = "loop"
    /\ UNCHANGED <<previous_cmd, input, line, stdout>>
    /\ UNCHANGED <<wrap_vars, class_vars>>

\* lines 159-177: one pass of the loop
BangToken ==
    /\ pc = "loop"
    /\ idx <= Len(tokens)
    /\ LET sep   == tokens[idx][1]
           token == tokens[idx][2]
       IN  /\ new_line' = new_line \o BangPushed(sep, token, previous_cmd)
           /\ replaced' = (replaced \/ BangShouldReplace(sep, token))
    /\ idx' = idx + 1
    /\ UNCHANGED <<previous_cmd, input, line, tokens, stdout, pc>>
    /\ UNCHANGED <<wrap_vars, class_vars>>

\* line 179: the line is rewritten
BangAssign ==
    /\ pc = "loop"
    /\ idx > Len(tokens)
    /\ line' = BangFinalLine(new_line)
    /\ pc' = "print"
    /\ UNCHANGED <<previous_cmd, input, tokens, idx, new_line, replaced, stdout>>
    /\ UNCHANGED <<wrap_vars, class_vars>>

\* lines 181-183: print the line if a token was substituted, and return
BangPrint ==
    /\ pc = "print"
    /\ stdout' = BangEcho(stdout, replaced, line)
    /\ pc' = "done"
    /\ UNCHANGED <<previous_cmd, input, line, tokens, idx, new_line, replaced>>
    /\ UNCHANGED <<wrap_vars, class_vars>>

NextBang == BangReturn \/ BangTokenize \/ BangToken \/ BangAssign \/ BangPrint

SpecBang == InitBang /\ [][NextBang]_vars

(***************************************************************************)
(* wrap_sep_string                                                         *)
(***************************************************************************)
\* a faulty variant: either delimiter closes the sub-expression
WrapFlag_AnyDelimCloses(sep, c, met, prev) ==
    IF sep = <<>> /\ (c = Backtick \/ c = "\"")
    THEN IF ~met THEN [met |-> TRUE, prev |-> c]
         ELSE [met |-> FALSE, prev |-> "N"]
    ELSE [met |-> met, prev |-> prev]

\* lines 194-202: the sub-expression flag and its delimiter after reading c
WrapFlag(sep, c, met, prev) ==
    IF sep = <<>> /\ (c = Backtick \/ c = "\"")
    THEN IF ~met THEN [met |-> TRUE, prev |-> c]
         ELSE IF c = prev THEN [met |-> FALSE, prev |-> "N"]
         ELSE [met |-> met, prev |-> prev]
    ELSE [met |-> met, prev |-> prev]

\* a faulty variant: a space is escaped whatever the separator is
WrapPushed_AnySepEscapesSpace(sep, c, met) ==
    (IF <<c>> = sep THEN <<"\\">> ELSE <<>>)
        \o (IF c = " " /\ ~met THEN <<"\\">> ELSE <<>>)
        \o <<c>>

\* lines 203-209: what is pushed to _token for c, met being the flag after lines 194-202
WrapPushed(sep, c, met) ==
    (IF <<c>> = sep THEN <<"\\">> ELSE <<>>)
        \o (IF c = " " /\ sep = <<>> /\ ~met THEN <<"\\">> ELSE <<>>)
        \o <<c>>

\* a faulty variant: the closing separator left out
WrapFormat_NoClose(sep, token) == sep \o token

\* line 211: format!("{}{}{}", sep, _token, sep)
WrapFormat(sep, token) == sep \o token \o sep

RECURSIVE WrapLoop(_, _, _, _)
\* the loop from character i on: [token, met, prev]
WrapLoop(sep, s, i, st) ==
    IF i > Len(s) THEN st
    ELSE LET f == WrapFlag(sep, s[i], st.met, st.prev)
         IN  WrapLoop(sep, s, i + 1,
                      [token |-> st.token \o WrapPushed(sep, s[i], f.met),
                       met   |-> f.met,
                       prev  |-> f.prev])

\* the whole call
wrap_sep_string(sep, s) ==
    WrapFormat(sep, WrapLoop(sep, s, 1, [token |-> <<>>, met |-> FALSE, prev |-> "N"]).token)

Separators == {<<>>, <<"'">>, <<"\"">>}

WrapChars == {" ", Backtick, "\"", "'", "\\", "a"}

WrapTexts == AtomStrings({<<c>> : c \in WrapChars}, MaxTextLen)

\* some text is about to be wrapped in some separator
InitWrap ==
    /\ w_sep \in Separators
    /\ w_s \in WrapTexts
    /\ w_i = 1
    /\ w_token = <<>>
    /\ met_subsep = FALSE
    /\ previous_subsep = "N"
    /\ w_result = <<>>
    /\ wpc = "scan"
    /\ IdleBang /\ IdleClass

\* lines 191-210: one pass of the loop
WrapChar ==
    /\ wpc = "scan"
    /\ w_i <= Len(w_s)
    /\ LET c == w_s[w_i]
           f == WrapFlag(w_sep, c, met_subsep, previous_subsep)
       IN  /\ met_subsep' = f.met
           /\ previous_subsep' = f.prev
           /\ w_token' = w_token \o WrapPushed(w_sep, c, f.met)
    /\ w_i' = w_i + 1
    /\ UNCHANGED <<w_sep, w_s, w_result, wpc>>
    /\ UNCHANGED <<bang_vars, class_vars>>

\* line 211: return the wrapped token
WrapReturn ==
    /\ wpc = "scan"
    /\ w_i > Len(w_s)
    /\ w_result' = WrapFormat(w_sep, w_token)
    /\ wpc' = "done"
    /\ UNCHANGED <<w_sep, w_s, w_i, w_token, met_subsep, previous_subsep>>
    /\ UNCHANGED <<bang_vars, class_vars>>

NextWrap == WrapChar \/ WrapReturn

SpecWrap == InitWrap /\ [][NextWrap]_vars

(***************************************************************************)
(* The classifiers                                                         *)
(***************************************************************************)
is_export_env(l) == re_contains(l, "^ *export +[a-zA-Z0-9_]+=.*$")

\* a faulty variant: the pattern without its leading ^
is_env_Unanchored(l) ==
    is_match([start |-> FALSE, end |-> TRUE,
              items |-> <<Class(NameClass, "plus"), Lit("="), Dot("star")>>], l)

is_env(l) == re_contains(l, "^[a-zA-Z0-9_]+=.*$")

\* a faulty variant: the check for a digit (lines 267-269) left out
is_arithmetic_NoDigitCheck(l) ==
    re_contains(l, "^[ 0-9\\.\\(\\)\\+\\-\\*/]+$")

is_arithmetic(l) ==
    IF ~re_contains(l, "[0-9]+") THEN FALSE
    ELSE re_contains(l, "^[ 0-9\\.\\(\\)\\+\\-\\*/]+$")

ClassAtoms ==
    {<<"e", "x", "p", "o", "r", "t">>, <<" ">>, <<"a">>, <<"=">>, <<"1">>, <<"+">>, <<"\t">>}

ClassLines == AtomStrings(ClassAtoms, MaxClassAtoms)

\* some line is about to be classified
InitClass ==
    /\ c_line \in ClassLines
    /\ r_env = <<>> /\ r_export = <<>> /\ r_arith = <<>>
    /\ IdleBang /\ IdleWrap

CallIsEnv ==
    /\ r_env = <<>>
    /\ r_env' = <<is_env(c_line)>>
    /\ UNCHANGED <<c_line, r_export, r_arith>>
    /\ UNCHANGED <<bang_vars, wrap_vars>>

CallIsExportEnv ==
    /\ r_export = <<>>
    /\ r_export' = <<is_export_env(c_line)>>
    /\ UNCHANGED <<c_line, r_env, r_arith>>
    /\ UNCHANGED <<bang_vars, wrap_vars>>

CallIsArithmetic ==
    /\ r_arith = <<>>
    /\ r_arith' = <<is_arithmetic(c_line)>>
    /\ UNCHANGED <<c_line, r_env, r_export>>
    /\ UNCHANGED <<bang_vars, wrap_vars>>

NextClass == CallIsEnv \/ CallIsExportEnv \/ CallIsArithmetic

SpecClass == InitClass /\ [][NextClass]_vars

(***************************************************************************)
(* Vocabulary of the properties, defined apart from the operators above.   *)
(***************************************************************************)
\* s contains the two characters !! somewhere
HasBangBang(s) ==
    \E i \in 1..(Len(s) - 1) : s[i] = "!" /\ s[i + 1] = "!"

RECURSIVE VerbatimFrom(_, _, _)
\* text from position i on with every !! replaced by prev, character for character
VerbatimFrom(text, i, prev) ==
    IF i > Len(text) THEN <<>>
    ELSE IF i < Len(text) /\ text[i] = "!" /\ text[i + 1] = "!"
         THEN prev \o VerbatimFrom(text, i + 2, prev)
    ELSE <<text[i]>> \o VerbatimFrom(text, i + 1, prev)

VerbatimReplace(text, prev) == VerbatimFrom(text, 1, prev)

\* s without its trailing whitespace: its longest prefix that ends in none
TrimTrailing(s) ==
    LET keep == {k \in 1..Len(s) : s[k] \notin WhiteSpace}
        n    == IF keep = {} THEN 0 ELSE CHOOSE k \in keep : \A m \in keep : m <= k
    IN  SubSeq(s, 1, n)

RECURSIVE JoinSpace(_)
\* the pieces in order, one space between neighbours
JoinSpace(ps) ==
    IF ps = <<>> THEN <<>>
    ELSE IF Len(ps) = 1 THEN ps[1]
    ELSE ps[1] \o <<" ">> \o JoinSpace(Tail(ps))

\* whether the token is one the expander substitutes
Substituted(tok) == HasBangBang(tok[2]) /\ tok[1] # <<"'">>

\* the call did not return early
Expanding == HasBangBang(input) /\ previous_cmd # <<>>

(***************************************************************************)
(* C1: in extend_bandband a token whose separator is the single quote is   *)
(* pushed with its text unmodified and counts as no substitution, whatever *)
(* happens to the other tokens of the line; a token whose separator is     *)
(* empty or the double quote and whose text contains !! is substituted:    *)
(* the regex replacement of its text is pushed (which is the text with     *)
(* each !! replaced by previous_cmd when previous_cmd holds no $) and the  *)
(* call is marked as having replaced.                                      *)
(***************************************************************************)
C1_SingleQuoteProtects ==
    [][ (pc = "loop" /\ idx <= Len(tokens)) =>
          LET sep   == tokens[idx][1]
              token == tokens[idx][2]
          IN  /\ sep = <<"'">> =>
                    /\ new_line' = new_line \o <<"'">> \o token \o <<"'", " ">>
                    /\ replaced' = replaced
              /\ (sep \in {<<>>, <<"\"">>} /\ HasBangBang(token)) =>
                    /\ replaced'
                    /\ new_line' = new_line \o sep
                                     \o replace_all(Regex_new("!!"), token, previous_cmd)
                                     \o sep \o <<" ">>
                    /\ ("$" \notin {previous_cmd[k] : k \in 1..Len(previous_cmd)} =>
                          new_line' = new_line \o sep
                                        \o VerbatimReplace(token, previous_cmd)
                                        \o sep \o <<" ">>)
      ]_vars

\* '!!' !! after the command f: the quoted token is kept, the bare one expanded
C1_Witness ==
    /\ pc = "done"
    /\ previous_cmd = <<"f">>
    /\ input = <<"'", "!", "!", "'", " ", "!", "!">>
    /\ line = <<"'", "!", "!", "'", " ", "f">>

(***************************************************************************)
(* C2: every token that is substituted has each !! of its text replaced by *)
(* the verbatim text of previous_cmd, whatever previous_cmd holds: after   *)
(* the loop has passed k tokens, new_line is those k tokens with their     *)
(* separators, substituted character for character.                        *)
(***************************************************************************)
C2_VerbatimSubstitution ==
    pc = "loop" =>
        new_line = Concat([k \in 1..(idx - 1) |->
                              tokens[k][1]
                                \o (IF Substituted(tokens[k])
                                    THEN VerbatimReplace(tokens[k][2], previous_cmd)
                                    ELSE tokens[k][2])
                                \o tokens[k][1] \o <<" ">>])

(***************************************************************************)
(* C3: when the line holds no !! or previous_cmd is empty, extend_bandband *)
(* does nothing: the line stays what it was, character for character, and  *)
(* nothing is printed; the call goes from its start straight to its end.   *)
(***************************************************************************)
C3_NoOp ==
    (pc # "idle" /\ ~Expanding) =>
        /\ line = input
        /\ stdout = <<>>
        /\ pc \in {"start", "done"}

\* "e  !!" with no previous command: two spaces kept, nothing printed
C3_Witness ==
    /\ pc = "done"
    /\ previous_cmd = <<>>
    /\ input = <<"e", " ", " ", "!", "!">>
    /\ line = input
    /\ stdout = <<>>

(***************************************************************************)
(* C4: when extend_bandband does not return early, the line it leaves is   *)
(* the tokens in order, each as separator + processed text + separator,    *)
(* joined by one space, with trailing whitespace trimmed; also when no     *)
(* token was substituted.                                                  *)
(***************************************************************************)
C4_Reassembly ==
    (pc \in {"print", "done"} /\ Expanding) =>
        line = TrimTrailing(JoinSpace(
                   [k \in 1..Len(tokens) |->
                       tokens[k][1]
                         \o BangTokenText(tokens[k][1], tokens[k][2], previous_cmd)
                         \o tokens[k][1]]))

\* "'!!' " after the command f: nothing substituted, yet the trailing space is gone
C4_Witness ==
    /\ pc = "done"
    /\ previous_cmd = <<"f">>
    /\ input = <<"'", "!", "!", "'", " ">>
    /\ line = <<"'", "!", "!", "'">>
    /\ replaced = FALSE

(***************************************************************************)
(* C8: extend_bandband prints at most once, only as its last step, after   *)
(* the line is rewritten; once it has returned, stdout holds exactly the   *)
(* final line if some token was substituted, and nothing otherwise (early  *)
(* return, or every !! inside single-quoted tokens).                       *)
(***************************************************************************)
C8_EchoOnceIffReplaced ==
    /\ Len(stdout) <= 1
    /\ pc # "done" => stdout = <<>>
    /\ pc = "done" =>
          stdout = IF Expanding
                      /\ \E k \in 1..Len(cmd_to_tokens(input)) :
                            Substituted(cmd_to_tokens(input)[k])
                   THEN <<line>>
                   ELSE <<>>

\* "e !!" after the command "f ": printed once, as the trimmed line "e f"
C8_Witness ==
    /\ pc = "done"
    /\ previous_cmd = <<"f", " ">>
    /\ input = <<"e", " ", "!", "!">>
    /\ line = <<"e", " ", "f">>
    /\ stdout = << <<"e", " ", "f">> >>

(***************************************************************************)
(* Vocabulary of the wrap_sep_string properties.                           *)
(***************************************************************************)
\* the characters of s
Chars(s) == {s[k] : k \in 1..Len(s)}

\* r without the separator at its two ends; <<"no separator">> when they are not there
StripSep(sep, r) ==
    IF sep = <<>> THEN r
    ELSE IF Len(r) >= 2 /\ r[1] = sep[1] /\ r[Len(r)] = sep[1]
         THEN SubSeq(r, 2, Len(r) - 1)
    ELSE <<"no separator">>

RECURSIVE UnescapeFrom(_, _)
\* s from position i on, each backslash that escapes a character dropped and
\* the character after it kept (a last backslash escapes nothing and stays)
UnescapeFrom(s, i) ==
    IF i > Len(s) THEN <<>>
    ELSE IF s[i] = "\\" /\ i < Len(s) THEN <<s[i + 1]>> \o UnescapeFrom(s, i + 2)
    ELSE <<s[i]>> \o UnescapeFrom(s, i + 1)

Unescape(s) == UnescapeFrom(s, 1)

RECURSIVE BackslashesBefore(_, _)
\* how many backslashes stand in a row right before position i
BackslashesBefore(s, i) ==
    IF i > 1 /\ s[i - 1] = "\\" THEN 1 + BackslashesBefore(s, i - 1) ELSE 0

\* the character at position i is not escaped by a backslash
Unescaped(s, i) == BackslashesBefore(s, i) % 2 = 0

SubDelims == {Backtick, "\""}

(***************************************************************************)
(* C5, as claimed: for every separator s and text t with no instance of s, *)
(* stripping s from both ends of wrap_sep_string(s, t) and un-escaping     *)
(* gives t back, also when t holds backslashes.                            *)
(***************************************************************************)
C5_RoundTripAnyText ==
    (wpc = "done" /\ Chars(w_s) \cap Chars(w_sep) = {}) =>
        Unescape(StripSep(w_sep, w_result)) = w_s

(***************************************************************************)
(* C5, amended: for every separator s and text t with no instance of s and *)
(* no backslash, stripping s from both ends of wrap_sep_string(s, t) and   *)
(* un-escaping gives t back.                                               *)
(***************************************************************************)
C5_RoundTripNoBackslash ==
    (wpc = "done" /\ Chars(w_s) \cap Chars(w_sep) = {} /\ "\\" \notin Chars(w_s)) =>
        Unescape(StripSep(w_sep, w_result)) = w_s

\* "a a" unquoted: wrapped as a\ a, which un-escapes to "a a"
C5_Witness ==
    /\ wpc = "done"
    /\ w_sep = <<>>
    /\ w_s = <<"a", " ", "a">>
    /\ w_result = <<"a", "\\", " ", "a">>
    /\ Unescape(StripSep(w_sep, w_result)) = w_s

(***************************************************************************)
(* C9, as claimed: with the empty separator the flag turns on only at an   *)
(* unescaped backtick or double quote met while it is off.                 *)
(***************************************************************************)
C9_OnOnlyAtUnescaped ==
    [][ (wpc = "scan" /\ w_i <= Len(w_s) /\ w_sep = <<>>) =>
          ((~met_subsep /\ met_subsep') =>
              (w_s[w_i] \in SubDelims /\ Unescaped(w_s, w_i)))
      ]_vars

(***************************************************************************)
(* C9, amended: with the empty separator the flag turns on exactly at a    *)
(* backtick or double quote met while it is off, whether or not a          *)
(* backslash stands before it, and remembers that delimiter; it turns off  *)
(* exactly when the remembered delimiter recurs (the other delimiter       *)
(* leaves it on); a space gets a backslash pushed before it exactly when   *)
(* the flag is off at that space, and every other character gets none; so  *)
(* while the remembered delimiter does not recur, spaces stay unescaped.   *)
(***************************************************************************)
C9_FlagAndSpaces ==
    [][ (wpc = "scan" /\ w_i <= Len(w_s) /\ w_sep = <<>>) =>
          LET c == w_s[w_i]
          IN  /\ (~met_subsep /\ met_subsep') <=> (~met_subsep /\ c \in SubDelims)
              /\ (~met_subsep /\ met_subsep') => previous_subsep' = c
              /\ (met_subsep /\ ~met_subsep') <=> (met_subsep /\ c = previous_subsep)
              /\ (met_subsep /\ c \in SubDelims /\ c # previous_subsep) =>
                    (met_subsep' /\ previous_subsep' = previous_subsep)
              /\ met_subsep => previous_subsep \in SubDelims
              /\ w_token' = w_token \o (IF c = " " /\ ~met_subsep
                                        THEN <<"\\", " ">> ELSE <<c>>)
              /\ (met_subsep /\ previous_subsep \notin Chars(SubSeq(w_s, w_i, Len(w_s)))) =>
                    (met_subsep' /\ (c = " " => w_token' = w_token \o <<" ">>))
      ]_vars

\* the text ` " `: the space before the unbalanced quote is escaped, the one after is not
C9_Witness ==
    /\ wpc = "done"
    /\ w_sep = <<>>
    /\ w_s = <<" ", "\"", " ", Backtick>>
    /\ w_result = <<"\\", " ", "\"", " ", Backtick>>
    /\ met_subsep
    /\ previous_subsep = "\""

(***************************************************************************)
(* C10: with the separator ' or " the result is the separator, the text    *)
(* with one backslash before every character equal to the separator and    *)
(* every other character copied as it is, and the separator; its length is *)
(* Len(text) + 2 + the number of separator characters in the text, and the *)
(* sub-expression flag is never set.                                       *)
(***************************************************************************)
C10_QuotedWrap ==
    w_sep \in {<<"'">>, <<"\"">>} =>
        /\ met_subsep = FALSE
        /\ previous_subsep = "N"
        /\ wpc = "done" =>
              /\ w_result =
                    w_sep
                      \o Concat([k \in 1..Len(w_s) |->
                                    IF w_s[k] = w_sep[1] THEN <<"\\", w_s[k]>>
                                    ELSE <<w_s[k]>>])
                      \o w_sep
              /\ Len(w_result) =
                    Len(w_s) + 2 + Cardinality({k \in 1..Len(w_s) : w_s[k] = w_sep[1]})

\* the text ' "\ in single quotes: only the single quote is escaped
C10_Witness ==
    /\ wpc = "done"
    /\ w_sep = <<"'">>
    /\ w_s = <<"'", " ", "\"", "\\">>
    /\ w_result = <<"'", "\\", "'", " ", "\"", "\\", "'">>

(***************************************************************************)
(* C6, as claimed: is_arithmetic(line) is true exactly when the line holds *)
(* a digit and consists only of digits, whitespace and . ( ) + - * /       *)
(***************************************************************************)
C6_ArithmeticWhitespace ==
    r_arith # <<>> =>
        r_arith[1] = (/\ Chars(c_line) \cap Digits # {}
                      /\ Chars(c_line) \subseteq
                            (Digits \cup WhiteSpace \cup {".", "(", ")", "+", "-", "*", "/"}))

(***************************************************************************)
(* C6, amended: is_arithmetic(line) is true exactly when the line holds a  *)
(* digit and consists only of digits, the space character U+0020 and       *)
(* . ( ) + - * /  (a tab or any other whitespace makes it false); so the   *)
(* empty line and a line of operators and spaces are not arithmetic.       *)
(***************************************************************************)
C6_ArithmeticSpace ==
    r_arith # <<>> =>
        r_arith[1] = (/\ Chars(c_line) \cap Digits # {}
                      /\ Chars(c_line) \subseteq
                            (Digits \cup {" ", ".", "(", ")", "+", "-", "*", "/"}))

\* "1 +1" is arithmetic
C6_Witness ==
    /\ c_line = <<"1", " ", "+", "1">>
    /\ r_arith = <<TRUE>>

(***************************************************************************)
(* C7: no line is both an export statement and a bare assignment: when     *)
(* is_export_env(line) is true, is_env(line) is false.                     *)
(***************************************************************************)
C7_ExportIsNotEnv ==
    (r_export = <<TRUE>> /\ r_env # <<>>) => r_env = <<FALSE>>

\* "export a=" is an export statement and no bare assignment
C7_Witness ==
    /\ c_line = <<"e", "x", "p", "o", "r", "t", " ", "a", "=">>
    /\ r_export = <<TRUE>>
    /\ r_env = <<FALSE>>

====
